---- MODULE Spec2Model ----
(***************************************************************************)
(* Annotation history engine of the PDF annotation editor: the Redux       *)
(* annotation slice (tool, selection, style defaults, in-progress drawing  *)
(* path, and the past/present/future history of annotation snapshots).     *)
(* Every reducer case of the slice is one action.  Around the slice: the   *)
(* pdf slice (document url, page count, page cursor), the pages the viewer *)
(* renders, the local drag and resize state of the text annotation         *)
(* components, and the handlers of the toolbar, the viewer, the drawing    *)
(* canvas, the text and image annotation components and the keyboard.      *)
(***************************************************************************)
EXTENDS Integers, Sequences, FiniteSets

VARIABLES activeTool, selectedAnnotationId, color, lineThickness, fontFamily,
          isDrawing, currentPath, history, nextId, obs,
          url, totalPages, currentPage, dragging, resizeDirection,
          pendingImages

vars == <<activeTool, selectedAnnotationId, color, lineThickness, fontFamily,
          isDrawing, currentPath, history, nextId, obs,
          url, totalPages, currentPage, dragging, resizeDirection,
          pendingImages>>

(* ------------------------------ bounds --------------------------------- *)

\* number of ids the id generator can hand out in one behaviour
MaxIds == 2
\* number of snapshots past and future may hold together
MaxHistory == 2
\* number of points one in-progress path may accumulate
MaxPoints == 2
\* number of uploaded images whose onload is still to come
MaxLoading == 1

(* --------------------------- value domains ----------------------------- *)

Tools == {"select", "text", "draw", "signature", "eraser", "image"}
\* the tool buttons of the toolbar
ToolButtons == {"text", "draw", "eraser", "signature"}
LineThicknesses == {"thin", "medium", "thick"}
FontFamilies == {"sans", "serif", "mono", "cursive"}
Colors == {"#000000", "#ff0000"}
Urls == {"blob:img"}
Positions == {[x |-> 10, y |-> 10], [x |-> 20, y |-> 20]}
\* the way of the pointer between two mousemove events: far enough to the
\* left to take the width of a text box to its least value
Deltas == {[x |-> -200, y |-> 10]}
\* what is typed into a text annotation
Contents == {"", "hello"}
\* the size PDFEditorApp.handleFileChange gives an uploaded image: at most
\* 200 wide, the height by the aspect ratio
UploadSizes == {[width |-> 200, height |-> 100]}
Sizes == {[width |-> 300, height |-> 150]}
Pages == {1, 2}
Ids == 1..MaxIds

\* null / undefined
NoId == 0
NoPath == [undefined |-> TRUE]

\* the corner handles of a text annotation; "null" is resizeDirection === null
ResizeDirections == {"nw", "ne", "sw", "se"}
NoDirection == "null"
\* no text annotation component is resizing
NoResize == [id \in Ids |-> NoDirection]
\* the url of the pdf slice before a file is loaded, and the object URL of a
\* loaded file
NoUrl == ""
DocumentUrls == {"blob:pdf"}

DefaultFontSize == 11
TextBoxSize == [width |-> 150, height |-> 40]

(* ------------------------------ helpers -------------------------------- *)

\* lineThickness === 'thin' ? 2 : lineThickness === 'medium' ? 5 : 8
ThicknessValue(t) == IF t = "thin" THEN 2 ELSE IF t = "medium" THEN 5 ELSE 8

\* a fresh path object, as built by setIsDrawing / addPointToPath
NewPath(points) ==
    [points |-> points, color |-> color, thickness |-> ThicknessValue(lineThickness)]

\* Array.prototype.findIndex on the id; 0 stands for -1
FindIndex(present, id) ==
    IF \E i \in 1..Len(present) : present[i].id = id
    THEN CHOOSE i \in 1..Len(present) :
            /\ present[i].id = id
            /\ \A j \in 1..(i - 1) : present[j].id # id
    ELSE 0

\* Array.prototype.filter(annotation => annotation.id !== id)
RECURSIVE FilterOut(_, _)
FilterOut(present, id) ==
    IF present = <<>> THEN <<>>
    ELSE IF Head(present).id = id THEN FilterOut(Tail(present), id)
         ELSE <<Head(present)>> \o FilterOut(Tail(present), id)

\* slip: a page filter that also lets the earlier pages through
ForPageUpTo(present, n) ==
    SelectSeq(present, LAMBDA item : item.pageNumber <= n)

\* history.present.filter(item => item.pageNumber === n): what the viewer
\* hands to the annotation layer of page n
ForPage(present, n) ==
    SelectSeq(present, LAMBDA item : item.pageNumber = n)

\* history.present.filter(ann => ann.type === 'drawing' && ann.pageNumber === n):
\* what the drawing canvas of page n paints
DrawingsForPage(present, n) ==
    SelectSeq(present, LAMBDA ann : ann.type = "drawing" /\ ann.pageNumber = n)

PresentIds(present) == {present[i].id : i \in 1..Len(present)}

\* slip: a push that forgets to clear future
PushHistoryKeepFuture(h, newPresent) ==
    [past |-> Append(h.past, h.present), present |-> newPresent, future |-> h.future]

\* slip: a push that overwrites the last past entry instead of growing past
PushHistoryOverwrite(h, newPresent) ==
    [past |-> IF h.past = <<>> THEN <<h.present>>
              ELSE [h.past EXCEPT ![Len(h.past)] = h.present],
     present |-> newPresent, future |-> <<>>]

\* { past: [...past, present], present: newPresent, future: [] }
PushHistory(h, newPresent) ==
    [past |-> Append(h.past, h.present), present |-> newPresent, future |-> <<>>]

\* room left for one more snapshot in the bounded model (an observed run is
\* bounded by its own length instead)
HistoryRoom == obs.on \/ Len(history.past) + Len(history.future) < MaxHistory

(* ---------------------------- initial state ---------------------------- *)

Init ==
    /\ activeTool = "select"
    /\ selectedAnnotationId = NoId
    /\ color = "#000000"
    /\ lineThickness = "thin"
    /\ fontFamily = "sans"
    /\ isDrawing = FALSE
    /\ currentPath = NoPath
    /\ history = [past |-> <<>>, present |-> <<>>, future |-> <<>>]
    /\ nextId = 1
    /\ obs = [on |-> FALSE]
    /\ url = NoUrl
    /\ totalPages = 0
    /\ currentPage = 1
    /\ dragging = {}
    /\ resizeDirection = NoResize
    /\ pendingImages = <<>>

(* ------------------------ run observer (ghost) ------------------------- *)
(* obs follows one run "commands, then undos" from the state the run began *)
(* in (base): how many commands were dispatched, how many of them met      *)
(* their precondition, and how many undos followed.  It is written by the  *)
(* actions and read by no reducer.                                         *)

\* longest run of commands the observer follows
MaxRun == 3

ObsOff == [on |-> FALSE]

ObsStart(h) ==
    [on |-> TRUE, base |-> h, phase |-> "cmd", cmds |-> 0, effective |-> 0,
     undos |-> 0, drag |-> NoId]

\* a mutating command; takesEffect: its precondition held (an update found its
\* id, a finished drawing had 2 points or more; creates, deletes and clears
\* always do); dragId: the id it updated in place, NoId for any other command
ObsCmd(takesEffect, dragId) ==
    IF ~obs.on THEN obs
    ELSE IF obs.phase # "cmd" \/ obs.cmds >= MaxRun THEN ObsOff
    ELSE [obs EXCEPT !.cmds = @ + 1,
                     !.effective = IF takesEffect THEN @ + 1 ELSE @,
                     !.drag = IF dragId # NoId /\ (obs.cmds = 0 \/ obs.drag = dragId)
                              THEN dragId ELSE NoId]

\* one undo more than commands is followed, to see what the extra one does
ObsUndo ==
    IF ~obs.on THEN obs
    ELSE IF obs.undos > obs.cmds THEN ObsOff
    ELSE [obs EXCEPT !.phase = "undo", !.undos = @ + 1]

\* a command outside the observed pattern ends the observation
ObsEnd == IF obs.on THEN ObsOff ELSE obs

(* ------------------------------ reducers ------------------------------- *)

\* slip: the tool switch of the earlier reducer, which also clears the
\* selection
SetActiveToolClearSelection(tool) ==
    /\ activeTool' = tool
    /\ selectedAnnotationId' = NoId
    /\ UNCHANGED <<color, lineThickness, fontFamily,
                   isDrawing, currentPath, history, nextId, obs>>

SetActiveTool(tool) ==
    /\ activeTool' = tool
    /\ UNCHANGED <<selectedAnnotationId, color, lineThickness, fontFamily,
                   isDrawing, currentPath, history, nextId, obs>>

SetSelectedAnnotationId(id) ==
    /\ selectedAnnotationId' = id
    /\ UNCHANGED <<activeTool, color, lineThickness, fontFamily,
                   isDrawing, currentPath, history, nextId, obs>>

SetColor(c) ==
    /\ color' = c
    /\ UNCHANGED <<activeTool, selectedAnnotationId, lineThickness, fontFamily,
                   isDrawing, currentPath, history, nextId, obs>>

SetLineThickness(t) ==
    /\ lineThickness' = t
    /\ UNCHANGED <<activeTool, selectedAnnotationId, color, fontFamily,
                   isDrawing, currentPath, history, nextId, obs>>

SetFontFamily(f) ==
    /\ fontFamily' = f
    /\ UNCHANGED <<activeTool, selectedAnnotationId, color, lineThickness,
                   isDrawing, currentPath, history, nextId, obs>>

SetIsDrawing(b) ==
    /\ isDrawing' = b
    /\ currentPath' = IF b /\ currentPath = NoPath THEN NewPath(<<>>) ELSE currentPath
    /\ UNCHANGED <<activeTool, selectedAnnotationId, color, lineThickness,
                   fontFamily, history, nextId, obs>>

\* slip: the point is put in front of the path (unshift for push)
AddPointToPathPrepend(p) ==
    /\ IF ~isDrawing THEN UNCHANGED currentPath
       ELSE IF currentPath = NoPath THEN currentPath' = NewPath(<<p>>)
       ELSE currentPath' = [currentPath EXCEPT !.points = <<p>> \o @]
    /\ UNCHANGED <<activeTool, selectedAnnotationId, color, lineThickness,
                   fontFamily, isDrawing, history, nextId, obs>>

AddPointToPath(p) ==
    /\ IF ~isDrawing THEN UNCHANGED currentPath
       ELSE IF currentPath = NoPath THEN currentPath' = NewPath(<<p>>)
       ELSE currentPath' = [currentPath EXCEPT !.points = Append(@, p)]
    /\ UNCHANGED <<activeTool, selectedAnnotationId, color, lineThickness,
                   fontFamily, isDrawing, history, nextId, obs>>

\* slip: the length check is off by one (a 1-point path is committed)
DrawingDiscardedBelowOne(path) == path = NoPath \/ Len(path.points) < 1

\* slip: only a missing path is discarded (a 1-point path is committed)
DrawingDiscardedOnlyAbsent(path) == path = NoPath

\* finishDrawing discards when there is no path or it has fewer than 2 points
DrawingDiscarded(path) == path = NoPath \/ Len(path.points) < 2

NewDrawing(id, path, pageNumber) ==
    [id |-> id, type |-> "drawing", paths |-> <<path>>,
     createdAt |-> id, pageNumber |-> pageNumber]

\* the history finishDrawing leaves
DrawingHistory(h, path, id, pageNumber) ==
    IF DrawingDiscarded(path) THEN h
    ELSE PushHistory(h, Append(h.present, NewDrawing(id, path, pageNumber)))

FinishDrawing(pageNumber) ==
    IF DrawingDiscarded(currentPath)
    THEN /\ isDrawing' = FALSE
         /\ currentPath' = NoPath
         /\ history' = DrawingHistory(history, currentPath, nextId, pageNumber)
         /\ obs' = ObsCmd(FALSE, NoId)
         /\ UNCHANGED <<activeTool, selectedAnnotationId, color, lineThickness,
                        fontFamily, nextId>>
    ELSE /\ nextId <= MaxIds
         /\ HistoryRoom
         /\ history' = DrawingHistory(history, currentPath, nextId, pageNumber)
         /\ currentPath' = NoPath
         /\ isDrawing' = FALSE
         /\ nextId' = nextId + 1
         /\ obs' = ObsCmd(TRUE, NoId)
         /\ UNCHANGED <<activeTool, selectedAnnotationId, color, lineThickness,
                        fontFamily>>

\* slip: undo without the guard on an empty past; past[past.length - 1] is
\* then undefined and the present it leaves holds no annotation
UndoHistoryUnguarded(h) ==
    [past |-> SubSeq(h.past, 1, Len(h.past) - 1),
     present |-> IF Len(h.past) = 0 THEN <<>> ELSE h.past[Len(h.past)],
     future |-> <<h.present>> \o h.future]

\* slip: undo that drops the present it leaves instead of keeping it for redo
UndoHistoryForget(h) ==
    IF Len(h.past) = 0 THEN h
    ELSE [past |-> SubSeq(h.past, 1, Len(h.past) - 1),
          present |-> h.past[Len(h.past)],
          future |-> h.future]

\* slip: undo that restores the oldest snapshot instead of the latest
UndoHistoryFirst(h) ==
    IF Len(h.past) = 0 THEN h
    ELSE [past |-> SubSeq(h.past, 1, Len(h.past) - 1),
          present |-> h.past[1],
          future |-> <<h.present>> \o h.future]

\* undo: the last past entry becomes present, the old present goes to the
\* front of future
UndoHistory(h) ==
    IF Len(h.past) = 0 THEN h
    ELSE [past |-> SubSeq(h.past, 1, Len(h.past) - 1),
          present |-> h.past[Len(h.past)],
          future |-> <<h.present>> \o h.future]

\* slip: undo that also drops the selection, as the earlier slice did
UndoClearSelection ==
    /\ history' = UndoHistory(history)
    /\ obs' = ObsUndo
    /\ selectedAnnotationId' = NoId
    /\ UNCHANGED <<activeTool, color, lineThickness,
                   fontFamily, isDrawing, currentPath, nextId>>

Undo ==
    /\ history' = UndoHistory(history)
    /\ obs' = ObsUndo
    /\ UNCHANGED <<activeTool, selectedAnnotationId, color, lineThickness,
                   fontFamily, isDrawing, currentPath, nextId>>

\* slip: redo that takes the farthest future entry instead of the nearest
RedoHistoryLast(h) ==
    IF Len(h.future) = 0 THEN h
    ELSE [past |-> Append(h.past, h.present),
          present |-> h.future[Len(h.future)],
          future |-> SubSeq(h.future, 1, Len(h.future) - 1)]

\* slip: the snapshot redo restores also stays in future
RedoHistoryDuplicate(h) ==
    IF Len(h.future) = 0 THEN h
    ELSE [past |-> Append(h.past, h.present),
          present |-> h.future[1],
          future |-> h.future]

\* redo: the first future entry becomes present, the old present is appended
\* to past
RedoHistory(h) ==
    IF Len(h.future) = 0 THEN h
    ELSE [past |-> Append(h.past, h.present),
          present |-> h.future[1],
          future |-> SubSeq(h.future, 2, Len(h.future))]

Redo ==
    /\ history' = RedoHistory(history)
    /\ obs' = ObsEnd
    /\ UNCHANGED <<activeTool, selectedAnnotationId, color, lineThickness,
                   fontFamily, isDrawing, currentPath, nextId>>

\* slip: a clear that removes the annotations one at a time, one history
\* entry each
RECURSIVE ClearHistoryOneByOne(_)
ClearHistoryOneByOne(h) ==
    IF h.present = <<>> THEN h
    ELSE ClearHistoryOneByOne(PushHistory(h, Tail(h.present)))

\* clearAnnotations: one push, whatever present holds
ClearHistory(h) == PushHistory(h, <<>>)

ClearAnnotations ==
    /\ HistoryRoom
    /\ history' = ClearHistory(history)
    /\ obs' = ObsCmd(TRUE, NoId)
    /\ UNCHANGED <<activeTool, selectedAnnotationId, color, lineThickness,
                   fontFamily, isDrawing, currentPath, nextId>>

\* slip: the payload's fields are merged into the stored object
MergeFields(old, new) ==
    [k \in DOMAIN old \cup DOMAIN new |-> IF k \in DOMAIN new THEN new[k] ELSE old[k]]
UpdateHistoryMerge(h, updatedAnnotation) ==
    LET annotationIndex == FindIndex(h.present, updatedAnnotation.id)
    IN  IF annotationIndex = 0 THEN h
        ELSE [past |-> Append(h.past, h.present),
              present |-> [h.present EXCEPT ![annotationIndex] = MergeFields(@, updatedAnnotation)],
              future |-> <<>>]

\* slip: present is updated in place, no history entry is pushed
UpdateHistoryInPlace(h, updatedAnnotation) ==
    LET annotationIndex == FindIndex(h.present, updatedAnnotation.id)
    IN  IF annotationIndex = 0 THEN h
        ELSE [h EXCEPT !.present[annotationIndex] = updatedAnnotation]

\* slip: the stored object gets a new timestamp on every update
UpdateHistoryRestamp(h, updatedAnnotation) ==
    LET annotationIndex == FindIndex(h.present, updatedAnnotation.id)
    IN  IF annotationIndex = 0 THEN h
        ELSE PushHistory(h, [h.present EXCEPT ![annotationIndex] =
                                [updatedAnnotation EXCEPT !.createdAt = @ + 1]])

\* slip: the updated object is appended, the stored one stays
UpdateHistoryAppend(h, updatedAnnotation) ==
    LET annotationIndex == FindIndex(h.present, updatedAnnotation.id)
    IN  IF annotationIndex = 0 THEN h
        ELSE PushHistory(h, Append(h.present, updatedAnnotation))

\* updateAnnotation: whole-object replacement at the index of the matching id;
\* history is left alone when no annotation has that id
UpdateHistory(h, updatedAnnotation) ==
    LET annotationIndex == FindIndex(h.present, updatedAnnotation.id)
    IN  IF annotationIndex = 0 THEN h
        ELSE PushHistory(h, [h.present EXCEPT ![annotationIndex] = updatedAnnotation])

UpdateAnnotation(updatedAnnotation) ==
    LET found == FindIndex(history.present, updatedAnnotation.id) # 0
    IN  /\ found => HistoryRoom
        /\ history' = UpdateHistory(history, updatedAnnotation)
        /\ obs' = ObsCmd(found, IF found THEN updatedAnnotation.id ELSE NoId)
        /\ UNCHANGED <<activeTool, selectedAnnotationId, color, lineThickness,
                       fontFamily, isDrawing, currentPath, nextId>>

\* deleteAnnotation: filters the id out and always pushes a history entry
DeleteHistory(h, annotationId) ==
    PushHistory(h, FilterOut(h.present, annotationId))

\* the reducer leaves selectedAnnotationId as it is
DeleteSelection(selected, annotationId) == selected

DeleteAnnotation(annotationId) ==
    /\ HistoryRoom
    /\ history' = DeleteHistory(history, annotationId)
    /\ selectedAnnotationId' = DeleteSelection(selectedAnnotationId, annotationId)
    /\ obs' = ObsCmd(TRUE, NoId)
    /\ UNCHANGED <<activeTool, color, lineThickness, fontFamily, isDrawing,
                   currentPath, nextId>>

\* a destructured payload field with its default
Field(payload, name, default) ==
    IF name \in DOMAIN payload THEN payload[name] ELSE default

\* slip: the omitted color and fontFamily fall back to fixed values instead
\* of the store's current defaults
NewTextFixedDefaults(id, payload) ==
    [id |-> id, type |-> "text",
     content |-> Field(payload, "content", ""),
     position |-> payload.position,
     size |-> TextBoxSize,
     color |-> Field(payload, "color", "#000000"),
     fontSize |-> Field(payload, "fontSize", DefaultFontSize),
     fontFamily |-> Field(payload, "fontFamily", "sans"),
     createdAt |-> id, pageNumber |-> payload.pageNumber]

NewText(id, payload) ==
    [id |-> id, type |-> "text",
     content |-> Field(payload, "content", ""),
     position |-> payload.position,
     size |-> TextBoxSize,
     color |-> Field(payload, "color", color),
     fontSize |-> Field(payload, "fontSize", DefaultFontSize),
     fontFamily |-> Field(payload, "fontFamily", fontFamily),
     createdAt |-> id, pageNumber |-> payload.pageNumber]

TextHistory(h, id, payload) ==
    PushHistory(h, Append(h.present, NewText(id, payload)))

CreateTextAnnotation(payload) ==
    /\ nextId <= MaxIds
    /\ HistoryRoom
    /\ history' = TextHistory(history, nextId, payload)
    /\ selectedAnnotationId' = nextId
    /\ nextId' = nextId + 1
    /\ obs' = ObsCmd(TRUE, NoId)
    /\ UNCHANGED <<activeTool, color, lineThickness, fontFamily, isDrawing, currentPath>>

NewSignature(id, payload) ==
    [id |-> id, type |-> "signature", position |-> payload.position,
     size |-> payload.size, path |-> payload.path,
     createdAt |-> id, pageNumber |-> payload.pageNumber]

\* createSignatureAnnotation appends whatever path the payload carries
SignatureHistory(h, id, payload) ==
    PushHistory(h, Append(h.present, NewSignature(id, payload)))

CreateSignatureAnnotation(payload) ==
    /\ nextId <= MaxIds
    /\ HistoryRoom
    /\ history' = SignatureHistory(history, nextId, payload)
    /\ selectedAnnotationId' = nextId
    /\ nextId' = nextId + 1
    /\ obs' = ObsCmd(TRUE, NoId)
    /\ UNCHANGED <<activeTool, color, lineThickness, fontFamily, isDrawing, currentPath>>

NewImage(id, payload) ==
    [id |-> id, type |-> "image", url |-> payload.url, position |-> payload.position,
     size |-> payload.size, createdAt |-> id, pageNumber |-> payload.pageNumber]

ImageHistory(h, id, payload) ==
    PushHistory(h, Append(h.present, NewImage(id, payload)))

CreateImageAnnotation(payload) ==
    /\ nextId <= MaxIds
    /\ HistoryRoom
    /\ history' = ImageHistory(history, nextId, payload)
    /\ selectedAnnotationId' = nextId
    /\ nextId' = nextId + 1
    /\ obs' = ObsCmd(TRUE, NoId)
    /\ UNCHANGED <<activeTool, color, lineThickness, fontFamily, isDrawing, currentPath>>

(* ------------------------- pdf slice reducers -------------------------- *)

\* pages of the longest document loaded
MaxTotalPages == 2

\* the state of the annotation slice, which no pdf reducer can reach
annotationState == <<activeTool, selectedAnnotationId, color, lineThickness,
                     fontFamily, isDrawing, currentPath, history, nextId, obs>>

\* the state of the pdf slice
pdfState == <<url, totalPages, currentPage>>

\* the local state of the mounted TextAnnotation components
componentState == <<dragging, resizeDirection>>

LoadPDF(u) ==
    /\ url' = u
    /\ UNCHANGED <<totalPages, currentPage, annotationState>>

SetTotalPages(n) ==
    /\ totalPages' = n
    /\ UNCHANGED <<url, currentPage, annotationState>>

SetCurrentPage(n) ==
    /\ currentPage' = IF n >= 1 /\ n <= totalPages THEN n ELSE currentPage
    /\ UNCHANGED <<url, totalPages, annotationState>>

NextPage ==
    /\ currentPage' = IF currentPage < totalPages THEN currentPage + 1 ELSE currentPage
    /\ UNCHANGED <<url, totalPages, annotationState>>

PreviousPage ==
    /\ currentPage' = IF currentPage > 1 THEN currentPage - 1 ELSE currentPage
    /\ UNCHANGED <<url, totalPages, annotationState>>

(* ------------------------------- inputs -------------------------------- *)

\* the first n points of a pointer stroke
Stroke(n) == [i \in 1..n |-> IF i % 2 = 1 THEN [x |-> 10, y |-> 10] ELSE [x |-> 20, y |-> 20]]

\* one payload that leaves every optional field out, one that sets them all
TextPayloads ==
    {[position |-> [x |-> 10, y |-> 10], pageNumber |-> 1],
     [position |-> [x |-> 20, y |-> 20], pageNumber |-> 2, content |-> "hello",
      fontFamily |-> "serif", fontSize |-> 16, color |-> "#ff0000"]}

SignaturePayloads ==
    {[position |-> [x |-> 100, y |-> 100], size |-> sz, path |-> Stroke(k), pageNumber |-> 1] :
        sz \in Sizes, k \in {0, 1, 2}}

ImagePayloads ==
    {[position |-> [x |-> 100, y |-> 100], size |-> sz, url |-> u, pageNumber |-> 2] :
        sz \in Sizes, u \in Urls}

\* an annotation object that was not read from present
ForeignAnnotation(id) ==
    [id |-> id, type |-> "text", content |-> "hello", position |-> [x |-> 20, y |-> 20],
     size |-> TextBoxSize, color |-> "#ff0000", fontSize |-> 16, fontFamily |-> "serif",
     createdAt |-> 0, pageNumber |-> 2]

\* what the components dispatch: the annotation read from present with its
\* position replaced (a drag); and objects not read from present
UpdatePayloads ==
    LET cur == {history.present[i] : i \in 1..Len(history.present)}
    IN  {[a EXCEPT !.position = p] : a \in {b \in cur : "position" \in DOMAIN b}, p \in Positions}
        \cup {ForeignAnnotation(id) : id \in Ids}

(* ---------------------------- specifications --------------------------- *)

\* the page the viewer renders: a document is loaded and n is one of its
\* totalPages pages
PageRendered(u, pages, n) == u # NoUrl /\ n >= 1 /\ n <= pages

\* the annotations that have a component: those the viewer hands to the
\* annotation layer of a rendered page
RenderedAnnotations(present, u, pages) ==
    SelectSeq(present, LAMBDA item : PageRendered(u, pages, item.pageNumber))

\* an annotation with this id is rendered: its component is mounted
Mounted(present, id) ==
    id \in PresentIds(RenderedAnnotations(present, url, totalPages))

\* the component of id lives through the step: the annotation is rendered
\* before and after it, in the layer of the same page and by the same kind
\* of component (the key of a component is the id, inside one layer)
Persists(id) ==
    LET before == RenderedAnnotations(history.present, url, totalPages)
        after == RenderedAnnotations(history'.present, url', totalPages')
    IN  /\ id \in PresentIds(before)
        /\ id \in PresentIds(after)
        /\ before[FindIndex(before, id)].pageNumber = after[FindIndex(after, id)].pageNumber
        /\ before[FindIndex(before, id)].type = after[FindIndex(after, id)].type

\* the re-render after a dispatch: a component that unmounts loses its
\* local state, and a component mounted later starts with the initial one
Render ==
    /\ dragging' = {id \in dragging : Persists(id)}
    /\ resizeDirection' = [id \in Ids |-> IF Persists(id) THEN resizeDirection[id]
                                          ELSE NoDirection]

\* store.dispatch of an annotation action: the reducer runs, the pdf slice
\* keeps its state, and the components re-render
Dispatch(reducer) ==
    /\ reducer
    /\ UNCHANGED <<pdfState, pendingImages>>
    /\ Render

\* store.dispatch of an action of the pdf slice
DispatchPdf(reducer) ==
    /\ reducer
    /\ UNCHANGED pendingImages
    /\ Render

DoSetActiveTool == \E t \in Tools : SetActiveTool(t)
\* the components select an annotation they render, or null
DoSetSelectedAnnotationId ==
    \E id \in PresentIds(history.present) \cup {NoId} : SetSelectedAnnotationId(id)
DoSetColor == \E c \in Colors : SetColor(c)
DoSetLineThickness == \E t \in LineThicknesses : SetLineThickness(t)
DoSetFontFamily == \E f \in FontFamilies : SetFontFamily(f)
DoSetIsDrawing == \E b \in BOOLEAN : SetIsDrawing(b)
\* the pointer follows one stroke: the next point of it arrives
NextPoint == Stroke(MaxPoints)[IF currentPath = NoPath THEN 1 ELSE Len(currentPath.points) + 1]
DoAddPointToPath ==
    /\ currentPath # NoPath => Len(currentPath.points) < MaxPoints
    /\ AddPointToPath(NextPoint)
DoFinishDrawing == \E n \in Pages : FinishDrawing(n)
DoUpdateAnnotation == \E a \in UpdatePayloads : UpdateAnnotation(a)
DoDeleteAnnotation == \E id \in Ids : DeleteAnnotation(id)
DoCreateTextAnnotation == \E p \in TextPayloads : CreateTextAnnotation(p)
DoCreateSignatureAnnotation == \E p \in SignaturePayloads : CreateSignatureAnnotation(p)
DoCreateImageAnnotation == \E p \in ImagePayloads : CreateImageAnnotation(p)

Next ==
    \/ Dispatch(DoSetActiveTool)
    \/ Dispatch(DoSetSelectedAnnotationId)
    \/ Dispatch(DoSetColor)
    \/ Dispatch(DoSetLineThickness)
    \/ Dispatch(DoSetFontFamily)
    \/ Dispatch(DoSetIsDrawing)
    \/ Dispatch(DoAddPointToPath)
    \/ Dispatch(DoFinishDrawing)
    \/ Dispatch(Undo)
    \/ Dispatch(Redo)
    \/ Dispatch(ClearAnnotations)
    \/ Dispatch(DoUpdateAnnotation)
    \/ Dispatch(DoDeleteAnnotation)
    \/ Dispatch(DoCreateTextAnnotation)
    \/ Dispatch(DoCreateSignatureAnnotation)
    \/ Dispatch(DoCreateImageAnnotation)

Spec == Init /\ [][Next]_vars

\* states the store is in after createTextAnnotation; after
\* createTextAnnotation, undo; after createTextAnnotation,
\* createImageAnnotation; and the initial state; each of them idle or after
\* setIsDrawing(true) and two addPointToPath.  All of them are reachable
\* states of SpecHist.
SeedText == [position |-> [x |-> 10, y |-> 10], pageNumber |-> 1]
SeedImage == [position |-> [x |-> 100, y |-> 100], size |-> [width |-> 300, height |-> 150],
              url |-> "blob:img", pageNumber |-> 2]
EmptyHistory == [past |-> <<>>, present |-> <<>>, future |-> <<>>]
Seeds ==
    LET h1 == PushHistory(EmptyHistory, <<NewText(1, SeedText)>>)
        h2 == PushHistory(h1, Append(h1.present, NewImage(2, SeedImage)))
    IN  {[history |-> EmptyHistory, selected |-> NoId, nextId |-> 1],
         [history |-> h1, selected |-> 1, nextId |-> 2],
         [history |-> UndoHistory(h1), selected |-> 1, nextId |-> 2],
         [history |-> h2, selected |-> 2, nextId |-> 3]}

InitRun ==
    /\ activeTool = "select"
    /\ color = "#000000"
    /\ lineThickness = "thin"
    /\ fontFamily = "sans"
    /\ \/ isDrawing = FALSE /\ currentPath = NoPath
       \/ isDrawing = TRUE /\ currentPath = NewPath(Stroke(2))
    /\ \E s \in Seeds :
        /\ history = s.history
        /\ selectedAnnotationId = s.selected
        /\ nextId = s.nextId
        /\ obs = ObsStart(s.history)
    /\ url = NoUrl
    /\ totalPages = 0
    /\ currentPage = 1
    /\ dragging = {}
    /\ resizeDirection = NoResize
    /\ pendingImages = <<>>

\* observed runs: history commands, then undos, for as long as the observer
\* follows
NextRun ==
    \/ Dispatch(DoFinishDrawing) /\ obs'.on
    \/ Dispatch(Undo) /\ obs'.on
    \/ Dispatch(ClearAnnotations) /\ obs'.on
    \/ Dispatch(DoUpdateAnnotation) /\ obs'.on
    \/ Dispatch(DoDeleteAnnotation) /\ obs'.on
    \/ Dispatch(DoCreateTextAnnotation) /\ obs'.on
    \/ Dispatch(DoCreateSignatureAnnotation) /\ obs'.on
    \/ Dispatch(DoCreateImageAnnotation) /\ obs'.on

SpecRun == InitRun /\ [][NextRun]_vars

\* the history commands and the selection
NextHist ==
    \/ Dispatch(DoSetSelectedAnnotationId)
    \/ Dispatch(DoSetIsDrawing)
    \/ Dispatch(DoAddPointToPath)
    \/ Dispatch(DoFinishDrawing)
    \/ Dispatch(Undo)
    \/ Dispatch(Redo)
    \/ Dispatch(ClearAnnotations)
    \/ Dispatch(DoUpdateAnnotation)
    \/ Dispatch(DoDeleteAnnotation)
    \/ Dispatch(DoCreateTextAnnotation)
    \/ Dispatch(DoCreateSignatureAnnotation)
    \/ Dispatch(DoCreateImageAnnotation)

SpecHist == Init /\ [][NextHist]_vars

\* the store under the tool, selection, style and drawing actions, with image
\* creation, undo and redo to fill the history
NextTool ==
    \/ Dispatch(DoSetActiveTool)
    \/ Dispatch(DoSetSelectedAnnotationId)
    \/ Dispatch(DoSetColor)
    \/ Dispatch(DoSetLineThickness)
    \/ Dispatch(DoSetFontFamily)
    \/ Dispatch(DoSetIsDrawing)
    \/ Dispatch(DoAddPointToPath)
    \/ Dispatch(DoCreateImageAnnotation)
    \/ Dispatch(Undo)
    \/ Dispatch(Redo)

SpecTool == Init /\ [][NextTool]_vars

(* ------------------- handlers of the components ----------------------- *)

(* Toolbar *)

\* Toolbar.handleToolClick, the onClick of a tool button
HandleToolClick(tool) == Dispatch(SetActiveTool(tool))

\* Toolbar.handleColorChange
HandleColorChange(newColor) == Dispatch(SetColor(newColor))

\* Toolbar.handleThicknessChange
HandleThicknessChange(thickness) == Dispatch(SetLineThickness(thickness))

\* Toolbar.handleFontFamilyChange
HandleFontFamilyChange(family) == Dispatch(SetFontFamily(family))

\* Toolbar.handleUndo and Toolbar.handleRedo
HandleUndo == Dispatch(Undo)
HandleRedo == Dispatch(Redo)

\* Toolbar.handleFileUpload and PDFEditorApp.handleFileChange, the change
\* event of the image input: a file that is not an image is turned away; for
\* an image the handler takes the position of the centre of the viewer,
\* makes an Image with an onload and returns.  It dispatches nothing.
HandleFileUpload(imageUrl, isImage) ==
    IF ~isImage THEN UNCHANGED vars
    ELSE /\ Len(pendingImages) < MaxLoading
         /\ pendingImages' = Append(pendingImages,
                                    [position |-> [x |-> 100, y |-> 100],
                                     url |-> imageUrl])
         /\ UNCHANGED <<annotationState, pdfState, componentState>>

\* the payload the onload builds for an image: always page 1, the position
\* and the url of the change event, the size by the natural dimensions
UploadPayload(pending, size) ==
    [position |-> pending.position, size |-> size, url |-> pending.url,
     pageNumber |-> 1]

\* the pending images without the i-th
WithoutPending(i) ==
    SubSeq(pendingImages, 1, i - 1) \o SubSeq(pendingImages, i + 1, Len(pendingImages))

\* img.onload of the i-th pending image, a task of its own after the change
\* event: store.dispatch of createImageAnnotation
HandleImageLoad(i, size) ==
    /\ i \in 1..Len(pendingImages)
    /\ CreateImageAnnotation(UploadPayload(pendingImages[i], size))
    /\ pendingImages' = WithoutPending(i)
    /\ UNCHANGED pdfState
    /\ Render

(* PDFViewer *)

\* PDFViewer.handleFileChange and PDFViewer.handleDrop: loadPDF with the
\* object URL of the file
HandleFileChange(fileUrl) == DispatchPdf(LoadPDF(fileUrl))

\* PDFViewer.handleDocumentLoadSuccess, the onLoadSuccess of the Document
\* that is rendered once a url is set
HandleDocumentLoadSuccess(numPages) ==
    /\ url # NoUrl
    /\ DispatchPdf(SetTotalPages(numPages))

\* the payload handlePDFClick builds for a click at position
ClickPayload(position) ==
    [position |-> position, pageNumber |-> currentPage, content |-> "",
     fontSize |-> 11, color |-> "#000000"]

\* PDFViewer.handlePDFClick: a click that is not on an annotation clears the
\* selection and, while the tool is text, creates a text annotation on the
\* current page (which selects it); with no document there is no
\* .document-container to measure and the handler ends after the first
\* dispatch
HandlePDFClick(position, isAnnotationClick) ==
    IF isAnnotationClick THEN UNCHANGED vars
    ELSE IF activeTool = "text" /\ url # NoUrl
         THEN Dispatch(CreateTextAnnotation(ClickPayload(position)))
         ELSE Dispatch(SetSelectedAnnotationId(NoId))

(* DrawingCanvas: one on every rendered page, and one more for every drawing
   annotation that the annotation layer of a rendered page shows *)

\* the pages that have a canvas
CanvasPages == {n \in 1..totalPages : PageRendered(url, totalPages, n)}

\* a pageNumber prop that was not passed (undefined): it is the number of no
\* page, so that an annotation that carries it is shown by no layer
NoPage == 0

\* the drawing annotations that have a canvas of their own: the annotation
\* layer mounts <DrawingCanvas drawingAnnotation=... isSelected=...>, without
\* a pageNumber, for each drawing it is handed
AnnotationCanvases ==
    LET shown == RenderedAnnotations(history.present, url, totalPages)
    IN  {shown[i].id : i \in {k \in 1..Len(shown) : shown[k].type = "drawing"}}

\* the values the pageNumber prop has among the mounted canvases
CanvasPageProps ==
    CanvasPages \cup (IF AnnotationCanvases # {} THEN {NoPage} ELSE {})

\* the values the pageNumber prop of a canvas can have
PageProps == Pages \cup {NoPage}

\* DrawingCanvas.handleDrawStart: setIsDrawing(true), then
\* addPointToPath(startPoint)
HandleDrawStart ==
    /\ CanvasPages # {}
    /\ IF activeTool # "draw" THEN UNCHANGED vars
       ELSE LET started == IF currentPath = NoPath THEN NewPath(<<>>) ELSE currentPath
            IN  /\ Len(started.points) < MaxPoints
                /\ isDrawing' = TRUE
                /\ currentPath' = [started EXCEPT !.points = Append(@, NextPoint)]
                /\ UNCHANGED <<activeTool, selectedAnnotationId, color, lineThickness,
                               fontFamily, history, nextId, obs, pdfState,
                               componentState, pendingImages>>

\* DrawingCanvas.handleDrawMove
HandleDrawMove ==
    /\ CanvasPages # {}
    /\ IF activeTool # "draw" \/ ~isDrawing THEN UNCHANGED vars
       ELSE Dispatch(DoAddPointToPath)

\* the guard of handleDrawEnd: it dispatches finishDrawing only when the
\* tool is still draw and a gesture is in progress
DrawEndDispatches == activeTool = "draw" /\ isDrawing

\* slip: the release handler does not look at the tool
HandleDrawEndUngated(pageNumber) ==
    /\ pageNumber \in CanvasPageProps
    /\ IF ~isDrawing THEN UNCHANGED vars
       ELSE Dispatch(FinishDrawing(pageNumber))

\* DrawingCanvas.handleDrawEnd, bound to onMouseUp and onMouseLeave of a
\* mounted canvas whose pageNumber prop is pageNumber: the canvas of a page
\* passes the number of the page, the canvas of a drawing annotation passes
\* none
HandleDrawEnd(pageNumber) ==
    /\ pageNumber \in CanvasPageProps
    /\ IF ~DrawEndDispatches THEN UNCHANGED vars
       ELSE Dispatch(FinishDrawing(pageNumber))

(* TextAnnotation, one for every text annotation of a rendered page *)

\* the mounted text annotations
TextIds(present) ==
    LET rendered == RenderedAnnotations(present, url, totalPages)
    IN  {rendered[i].id : i \in {j \in 1..Len(rendered) : rendered[j].type = "text"}}

\* the annotation prop of the component of id, as of the latest render
AnnotationOf(id) == history.present[FindIndex(history.present, id)]

\* the resize handles and the delete button of a component are rendered
\* while it is selected and the tool is select
HandlesRendered(id) == selectedAnnotationId = id /\ activeTool = "select"

\* TextAnnotation.handleMouseDown: select the annotation and start the drag;
\* it looks neither at the button nor at a drag in progress
HandleMouseDown(id) ==
    /\ id \in TextIds(history.present)
    /\ IF activeTool # "select" THEN UNCHANGED vars
       ELSE /\ SetSelectedAnnotationId(id)
            /\ dragging' = dragging \cup {id}
            /\ UNCHANGED <<pdfState, resizeDirection, pendingImages>>

\* TextAnnotation.handleResizeStart, the onMouseDown of a corner handle
HandleResizeStart(id, direction) ==
    /\ id \in TextIds(history.present)
    /\ HandlesRendered(id)
    /\ resizeDirection' = [resizeDirection EXCEPT ![id] = direction]
    /\ UNCHANGED <<annotationState, pdfState, dragging, pendingImages>>

\* the components that listen to the mousemove and mouseup of the document:
\* those with isDragging or isResizing
Listening == {id \in TextIds(history.present) :
                id \in dragging \/ resizeDirection[id] # NoDirection}

MaxOf(a, b) == IF a >= b THEN a ELSE b

\* the resize branch of handleMouseMove at scale 1: delta is the way of the
\* pointer since the last event
ResizePayload(annotation, direction, delta) ==
    LET width == annotation.size.width
        height == annotation.size.height
        x == annotation.position.x
        y == annotation.position.y
    IN  IF direction = "ne"
        THEN [annotation EXCEPT
                !.size = [width |-> MaxOf(50, width + delta.x),
                          height |-> MaxOf(30, height - delta.y)],
                !.position = [x |-> x, y |-> y + delta.y]]
        ELSE IF direction = "se"
        THEN [annotation EXCEPT
                !.size = [width |-> MaxOf(50, width + delta.x),
                          height |-> MaxOf(30, height + delta.y)]]
        ELSE IF direction = "sw"
        THEN [annotation EXCEPT
                !.size = [width |-> MaxOf(50, width - delta.x),
                          height |-> MaxOf(30, height + delta.y)],
                !.position = [x |-> x + delta.x, y |-> y]]
        ELSE [annotation EXCEPT
                !.size = [width |-> MaxOf(50, width - delta.x),
                          height |-> MaxOf(30, height - delta.y)],
                !.position = [x |-> x + delta.x, y |-> y + delta.y]]

\* what the pointer event means to the component of id: the new position of
\* a dragged annotation (the pointer less the offset of the press), or the
\* way of the pointer for a resized one
MoveInputs(id) == IF id \in dragging THEN Positions ELSE Deltas

\* the updateAnnotation payload of one listening component: the drag branch
\* comes first
MovePayload(id, input) ==
    IF id \in dragging THEN [AnnotationOf(id) EXCEPT !.position = input]
    ELSE ResizePayload(AnnotationOf(id), resizeDirection[id], input)

\* the updateAnnotation reducer run on each payload in turn
RECURSIVE UpdateEach(_, _)
UpdateEach(h, payloads) ==
    IF payloads = <<>> THEN h
    ELSE UpdateEach(UpdateHistory(h, Head(payloads)), Tail(payloads))

\* the orders in which the listeners of a set of components can be called
Orders(components) ==
    {order \in [1..Cardinality(components) -> components] :
        \A i, j \in DOMAIN order : order[i] = order[j] => i = j}

\* room in the bounded model for every snapshot the payloads push
RoomForEach(payloads) ==
    \A k \in 0..(Len(payloads) - 1) :
        LET h == UpdateEach(history, SubSeq(payloads, 1, k))
        IN  obs.on \/ Len(h.past) + Len(h.future) < MaxHistory

\* TextAnnotation.handleMouseMove, a document listener of every component
\* that is dragging or resizing: each of them dispatches updateAnnotation
\* with the annotation of its latest render.  The order of the listeners is
\* the order in which the effects registered them.
HandleMouseMove ==
    /\ Listening # {}
    /\ \E order \in Orders(Listening) :
       \E inputs \in [Listening -> Positions \cup Deltas] :
        /\ \A id \in Listening : inputs[id] \in MoveInputs(id)
        /\ LET payloads == [i \in DOMAIN order |-> MovePayload(order[i], inputs[order[i]])]
           IN  /\ RoomForEach(payloads)
               /\ history' = UpdateEach(history, payloads)
        /\ obs' = ObsEnd
        /\ UNCHANGED <<activeTool, selectedAnnotationId, color, lineThickness,
                       fontFamily, isDrawing, currentPath, nextId, pdfState,
                       pendingImages>>
        /\ Render

\* TextAnnotation.handleMouseUp, a document listener of the same components
HandleMouseUp ==
    /\ Listening # {}
    /\ dragging' = dragging \ Listening
    /\ resizeDirection' = [id \in Ids |-> IF id \in Listening THEN NoDirection
                                          ELSE resizeDirection[id]]
    /\ UNCHANGED <<annotationState, pdfState, pendingImages>>

\* TextAnnotation.handleContentChange, the onChange of the textarea: the
\* value differs from the content shown
HandleContentChange(id, value) ==
    /\ id \in TextIds(history.present)
    /\ value # AnnotationOf(id).content
    /\ Dispatch(UpdateAnnotation([AnnotationOf(id) EXCEPT !.content = value]))

\* TextAnnotation.handleDelete, the onClick of the delete button
HandleDelete(id) ==
    /\ id \in TextIds(history.present)
    /\ HandlesRendered(id)
    /\ Dispatch(DeleteAnnotation(id))

(* ImageAnnotation, one for every image annotation of a rendered page *)

\* the mounted image annotations
ImageIds(present) ==
    LET rendered == RenderedAnnotations(present, url, totalPages)
    IN  {rendered[i].id : i \in {j \in 1..Len(rendered) : rendered[j].type = "image"}}

\* ImageAnnotation.handleMouseDown
HandleImageMouseDown(id) ==
    /\ id \in ImageIds(history.present)
    /\ IF activeTool # "select" THEN UNCHANGED vars
       ELSE Dispatch(SetSelectedAnnotationId(id))

\* ImageAnnotation.handleDelete
HandleImageDelete(id) ==
    /\ id \in ImageIds(history.present)
    /\ HandlesRendered(id)
    /\ Dispatch(DeleteAnnotation(id))

(* PDFEditorApp *)

\* PDFEditorApp.handleKeyDown: Ctrl/Cmd+Z, and Ctrl/Cmd+Shift+Z or Ctrl/Cmd+Y
HandleKeyDownUndo == Dispatch(Undo)
HandleKeyDownRedo == Dispatch(Redo)

\* a document of 1..MaxTotalPages pages is loaded
DoSetTotalPages == \E n \in 1..MaxTotalPages : SetTotalPages(n)
\* page numbers below, inside and above the range of any document
DoSetCurrentPage == \E n \in 0..(MaxTotalPages + 1) : SetCurrentPage(n)

\* the page cursor, the style defaults, the selection and the creation of
\* annotations
NextView ==
    \/ DispatchPdf(DoSetTotalPages)
    \/ DispatchPdf(DoSetCurrentPage)
    \/ DispatchPdf(NextPage)
    \/ DispatchPdf(PreviousPage)
    \/ Dispatch(DoSetSelectedAnnotationId)
    \/ Dispatch(DoSetColor)
    \/ Dispatch(DoSetFontFamily)
    \/ Dispatch(DoCreateTextAnnotation)
    \/ Dispatch(DoCreateImageAnnotation)

SpecView == Init /\ [][NextView]_vars

\* the pickers of the toolbar for the colour, the line thickness and the
\* font family
StylePickers ==
    \/ \E c \in Colors : HandleColorChange(c)
    \/ \E t \in LineThicknesses : HandleThicknessChange(t)
    \/ \E f \in FontFamilies : HandleFontFamilyChange(f)

\* the tool buttons, the undo and redo buttons and the image upload of the
\* toolbar, with the onload the upload leaves behind
ToolbarHandlers ==
    \/ \E t \in ToolButtons : HandleToolClick(t)
    \/ HandleUndo
    \/ HandleRedo
    \/ \E u \in Urls, b \in BOOLEAN : HandleFileUpload(u, b)
    \/ \E i \in 1..MaxLoading, sz \in UploadSizes : HandleImageLoad(i, sz)

\* the handlers of the viewer
ViewerHandlers ==
    \/ \E u \in DocumentUrls : HandleFileChange(u)
    \/ \E n \in 1..MaxTotalPages : HandleDocumentLoadSuccess(n)
    \/ \E p \in Positions, b \in BOOLEAN : HandlePDFClick(p, b)

\* the handlers of the drawing canvases
CanvasHandlers ==
    \/ HandleDrawStart
    \/ HandleDrawMove
    \/ \E n \in PageProps : HandleDrawEnd(n)

\* the press on a text box and the textarea of it
TextHandlers ==
    \/ \E id \in Ids : HandleMouseDown(id)
    \/ \E id \in Ids, v \in Contents : HandleContentChange(id, v)

\* the corner handles and the delete button of a text box, and the document
\* listeners of a text box that is dragged or resized
TextSelectHandlers ==
    \/ \E id \in Ids, d \in ResizeDirections : HandleResizeStart(id, d)
    \/ HandleMouseMove
    \/ HandleMouseUp
    \/ \E id \in Ids : HandleDelete(id)

\* the handlers of the image annotation component
ImageHandlers ==
    \/ \E id \in Ids : HandleImageMouseDown(id)
    \/ \E id \in Ids : HandleImageDelete(id)

\* the keyboard shortcuts of the application
KeyboardHandlers ==
    \/ HandleKeyDownUndo
    \/ HandleKeyDownRedo

\* every handler of the editor
NextEditor ==
    \/ StylePickers
    \/ ToolbarHandlers
    \/ ViewerHandlers
    \/ CanvasHandlers
    \/ TextHandlers
    \/ TextSelectHandlers
    \/ ImageHandlers
    \/ KeyboardHandlers

SpecEditor == Init /\ [][NextEditor]_vars

\* a text box is made with the text tool, and the toolbar has no button that
\* brings the select tool back: no text box is mounted while the tool is
\* select, so that no press on a text box starts a drag and the handles and
\* the delete button of a text box are never rendered
TextBoxesIdle ==
    /\ activeTool = "select" => TextIds(history.present) = {}
    /\ Listening = {}

\* the editor with the style pickers left alone; TextSelectHandlers is
\* enabled in no state of it (TextBoxesIdle)
NextGesture ==
    \/ ToolbarHandlers
    \/ ViewerHandlers
    \/ CanvasHandlers
    \/ TextHandlers
    \/ ImageHandlers
    \/ KeyboardHandlers

SpecGesture == Init /\ [][NextGesture]_vars

\* the editor with the canvases and the text boxes left alone
NextToolbar ==
    \/ StylePickers
    \/ ToolbarHandlers
    \/ ViewerHandlers
    \/ ImageHandlers
    \/ KeyboardHandlers

SpecToolbar == Init /\ [][NextToolbar]_vars

(* =============================== claims ================================ *)

(* ---- C1 ---- *)

\* an observed run of n commands followed by n undos
RunUndone == obs.on /\ obs.phase = "undo" /\ obs.undos = obs.cmds

\* C1 as stated: after any n create/update/delete commands and n undos,
\* present is the present the run began with.
C1_UndoRoundTripAnyCommands == RunUndone => history.present = obs.base.present

\* C1 amended: after n commands that each met their precondition (so each
\* pushed one history entry) and n undos, present is the present the run
\* began with.
C1_UndoRoundTrip ==
    (RunUndone /\ obs.effective = obs.cmds) => history.present = obs.base.present

C1_Witness ==
    /\ RunUndone
    /\ obs.cmds >= 2
    /\ obs.effective = obs.cmds
    /\ obs.base.present # <<>>
    /\ history.present = obs.base.present
    /\ Len(history.future) >= 2

(* ---- C2 ---- *)

\* undo / redo dispatched k times in a row
RECURSIVE UndoTimes(_, _)
UndoTimes(h, k) == IF k = 0 THEN h ELSE UndoTimes(UndoHistory(h), k - 1)
RECURSIVE RedoTimes(_, _)
RedoTimes(h, k) == IF k = 0 THEN h ELSE RedoTimes(RedoHistory(h), k - 1)

\* C2: from every reachable state and every k up to the length of past, k
\* undos followed by k redos give back past, present and future; one undo
\* moves the last past entry to present and the old present to the front of
\* future, one redo moves the first future entry to present and the old
\* present to the end of past.
C2_RedoInvertsUndo ==
    /\ \A k \in 0..Len(history.past) : RedoTimes(UndoTimes(history, k), k) = history
    /\ history.past # <<>> =>
         LET u == UndoHistory(history)
         IN  /\ u.present = history.past[Len(history.past)]
             /\ Append(u.past, u.present) = history.past
             /\ u.future = <<history.present>> \o history.future
    /\ history.future # <<>> =>
         LET r == RedoHistory(history)
         IN  /\ r.present = history.future[1]
             /\ r.past = Append(history.past, history.present)
             /\ <<r.present>> \o r.future = history.future

\* two undos are possible, they change the history, and two redos undo them
C2_Witness ==
    /\ Len(history.past) >= 2
    /\ history.present # <<>>
    /\ UndoTimes(history, 2) # history
    /\ Len(UndoTimes(history, 2).future) = 2
    /\ RedoTimes(UndoTimes(history, 2), 2) = history

(* ---- C3 ---- *)

\* the histories the mutating commands that meet their precondition lead to
\* from the current state
EffectiveResults ==
    {TextHistory(history, nextId, p) : p \in TextPayloads}
    \cup {SignatureHistory(history, nextId, p) : p \in SignaturePayloads}
    \cup {ImageHistory(history, nextId, p) : p \in ImagePayloads}
    \cup {DeleteHistory(history, id) : id \in Ids}
    \cup {ClearHistory(history)}
    \cup {UpdateHistory(history, a) :
            a \in {b \in UpdatePayloads : b.id \in PresentIds(history.present)}}
    \cup {DrawingHistory(history, currentPath, nextId, n) :
            n \in {m \in Pages : currentPath # NoPath /\ Len(currentPath.points) >= 2}}

\* the histories every dispatch of a mutating command leads to
AllResults ==
    EffectiveResults
    \cup {UpdateHistory(history, a) : a \in UpdatePayloads}
    \cup {DrawingHistory(history, currentPath, nextId, n) : n \in Pages}

\* C3 as stated: whatever mutating command is dispatched (after an undo, or
\* in any other state), future is empty afterwards and redo changes nothing.
C3_AnyCommandClearsFuture ==
    \A r \in AllResults : r.future = <<>> /\ RedoHistory(r) = r

\* C3 amended: every mutating command that meets its precondition
\* (updateAnnotation on an id of present, finishDrawing with 2 points or
\* more, any create, delete or clear) leaves future empty, and a redo after
\* it changes nothing.
C3_EffectiveCommandClearsFuture ==
    \A r \in EffectiveResults : r.future = <<>> /\ RedoHistory(r) = r

\* after an undo: future holds a snapshot, and there is an annotation to
\* update or delete
C3_Witness ==
    /\ history.future # <<>>
    /\ history.present # <<>>
    /\ nextId <= MaxIds
    /\ \E r \in EffectiveResults : r.present # history.present /\ r.future = <<>>

(* ---- C4 ---- *)

\* C4: selectedAnnotationId is null or the id of an annotation of present.
C4_SelectionValid ==
    selectedAnnotationId = NoId \/ selectedAnnotationId \in PresentIds(history.present)

(* ---- C5 ---- *)

\* C5: in a state where an annotation is selected, deleteAnnotation of its
\* id leaves selectedAnnotationId null and the annotation out of present.
C5_DeleteClearsSelection ==
    \A id \in Ids :
        selectedAnnotationId = id =>
            /\ DeleteSelection(selectedAnnotationId, id) = NoId
            /\ id \notin PresentIds(DeleteHistory(history, id).present)

(* ---- C6 ---- *)

\* C6: createSignatureAnnotation with a path of fewer than 2 points leaves
\* past, present and future as they are.
C6_ShortSignatureIsNoOp ==
    \A p \in SignaturePayloads :
        Len(p.path) < 2 => SignatureHistory(history, nextId, p) = history

(* ---- C7 ---- *)

\* C7: finishDrawing with no path or a path of fewer than 2 points leaves
\* past, present and future as they are, and leaves isDrawing false and
\* currentPath undefined.
C7_ShortDrawingDiscarded ==
    [][\A n \in Pages :
        ((currentPath = NoPath \/ Len(currentPath.points) < 2) /\ FinishDrawing(n)) =>
            /\ history' = history
            /\ isDrawing' = FALSE
            /\ currentPath' = NoPath]_vars

\* a gesture that accumulated one point, over a non-empty history
C7_Witness ==
    /\ isDrawing
    /\ currentPath # NoPath
    /\ Len(currentPath.points) = 1
    /\ history.present # <<>>
    /\ history.past # <<>>

(* ---- C8 ---- *)

\* C8: deleteAnnotation with an id that is not in present leaves past,
\* present and future as they are.
C8_DeleteUnknownIsNoOp ==
    \A id \in Ids \ PresentIds(history.present) : DeleteHistory(history, id) = history

(* ---- C9 ---- *)

\* C9: updateAnnotation(a) puts the object a, whole, at the place of the
\* annotation with a's id and leaves every other annotation and the
\* selection as they are; when present has no annotation with that id,
\* history and selection are unchanged.
C9_UpdateReplacesWhole ==
    [][\A a \in UpdatePayloads :
        UpdateAnnotation(a) =>
            IF a.id \in PresentIds(history.present)
            THEN /\ Len(history'.present) = Len(history.present)
                 /\ \A i \in 1..Len(history.present) :
                       history'.present[i] =
                           IF history.present[i].id = a.id THEN a ELSE history.present[i]
                 /\ selectedAnnotationId' = selectedAnnotationId
            ELSE /\ history' = history
                 /\ selectedAnnotationId' = selectedAnnotationId]_vars

\* an image annotation was replaced by a text object with the same id
C9_Witness ==
    /\ history.past # <<>>
    /\ \E i \in 1..Len(history.present) :
          /\ history.present[i] = ForeignAnnotation(history.present[i].id)
          /\ Len(history.past[Len(history.past)]) >= i
          /\ history.past[Len(history.past)][i].type = "image"
          /\ history.past[Len(history.past)][i].id = history.present[i].id

(* ---- C10 ---- *)

\* an observed run that began with three updateAnnotation calls on one
\* annotation of present
Dragged3 == obs.on /\ obs.drag # NoId /\ obs.cmds = 3 /\ obs.effective = 3

\* C10 as stated, its last part: after the three undos a fourth undo leaves
\* the state as it was.
C10_FourthUndoIsNoOp ==
    (Dragged3 /\ obs.undos = 4) =>
        /\ history.present = obs.base.present
        /\ history.past = obs.base.past

\* C10 amended: the three updates push three entries (the first of them the
\* present before the drag), three undos restore the history before the drag
\* with the three dragged snapshots in future, and a fourth undo is not a
\* no-op: past was not empty before the drag, and the fourth undo steps back
\* to its last entry.
C10_DragThenUndo ==
    Dragged3 =>
        LET n == Len(obs.base.past)
        IN  /\ obs.undos = 0 =>
                /\ Len(history.past) = n + 3
                /\ SubSeq(history.past, 1, n) = obs.base.past
                /\ history.past[n + 1] = obs.base.present
                /\ history.future = <<>>
            /\ obs.undos = 3 =>
                /\ history.present = obs.base.present
                /\ history.past = obs.base.past
                /\ Len(history.future) = 3
            /\ obs.undos = 4 =>
                /\ n > 0
                /\ history.present = obs.base.past[n]
                /\ history.past = SubSeq(obs.base.past, 1, n - 1)
                /\ history.future[1] = obs.base.present

C10_Witness ==
    /\ Dragged3
    /\ obs.undos = 4
    /\ history.present # obs.base.present
    /\ history.future[1] = obs.base.present
    /\ history.future[2] # obs.base.present

(* ---- C11 ---- *)

\* C11: createTextAnnotation on page 1 dispatched in the initial state
\* leaves a present of exactly one annotation, a text annotation, and
\* selectedAnnotationId equal to its id; undo after it gives an empty
\* present; redo after that gives a present that holds the same text
\* annotation again, with the same id and content.
C11_CreateUndoRedo ==
    [][\A p \in {q \in TextPayloads : q.pageNumber = 1} :
        (history = EmptyHistory /\ nextId = 1 /\ CreateTextAnnotation(p)) =>
            LET created == history'
                undone == UndoHistory(created)
                redone == RedoHistory(undone)
            IN  /\ Len(created.present) = 1
                /\ created.present[1].type = "text"
                /\ created.present[1].pageNumber = 1
                /\ selectedAnnotationId' = created.present[1].id
                /\ undone.present = <<>>
                /\ Len(redone.present) = 1
                /\ redone.present[1] = created.present[1]
                /\ redone.present[1].id = created.present[1].id
                /\ redone.present[1].content = created.present[1].content]_vars

\* the text annotation created on page 1 in the initial state was undone:
\* present is empty, the annotation waits in future and is still selected
C11_Witness ==
    /\ history.past = <<>>
    /\ history.present = <<>>
    /\ Len(history.future) = 1
    /\ Len(history.future[1]) = 1
    /\ history.future[1][1].type = "text"
    /\ history.future[1][1].pageNumber = 1
    /\ RedoHistory(history).present = history.future[1]
    /\ nextId = 2

(* ---- C12 ---- *)

\* C12: every clearAnnotations step leaves present empty and past longer by
\* exactly one entry, the present before the step, however many annotations
\* that present held; one undo after it gives back that present, the same
\* annotations in the same order.
C12_ClearIsOneEntry ==
    [][ClearAnnotations =>
        /\ history'.present = <<>>
        /\ Len(history'.past) = Len(history.past) + 1
        /\ history'.past = Append(history.past, history.present)
        /\ UndoHistory(history').present = history.present
        /\ UndoHistory(history').past = history.past]_vars

\* a present of two annotations was cleared by one command and restored by
\* one undo
C12_Witness ==
    /\ obs.on
    /\ obs.cmds = 1
    /\ obs.undos = 1
    /\ Len(obs.base.present) = 2
    /\ history.future = << <<>> >>
    /\ history.present = obs.base.present
    /\ history.past = obs.base.past

(* ---- C13 ---- *)

\* the positions in present of the annotations on page n
OnPage(present, n) == {i \in 1..Len(present) : present[i].pageNumber = n}

\* C13: in every state and for every page n, the list handed to the
\* annotation layer of page n holds no annotation of another page, holds
\* every annotation of present that is on page n exactly once, and keeps
\* them in the order they have in present; the drawing canvas of page n
\* paints no drawing of another page.
C13_PerPageProjection ==
    \A n \in Pages :
        LET shown == ForPage(history.present, n)
        IN  /\ \A k \in 1..Len(shown) : shown[k].pageNumber = n
            /\ Len(shown) = Cardinality(OnPage(history.present, n))
            /\ \A i \in OnPage(history.present, n) :
                   \E k \in 1..Len(shown) : shown[k] = history.present[i]
            /\ \A k, l \in 1..Len(shown) :
                   k < l => FindIndex(history.present, shown[k].id)
                              < FindIndex(history.present, shown[l].id)
            /\ \A k \in 1..Len(DrawingsForPage(history.present, n)) :
                   DrawingsForPage(history.present, n)[k].pageNumber = n

\* present holds an annotation of page 2 before one of page 1, so the
\* projection of each page leaves something out
C13_Witness ==
    /\ Len(history.present) = 2
    /\ history.present[1].pageNumber = 2
    /\ history.present[2].pageNumber = 1
    /\ ForPage(history.present, 1) = <<history.present[2]>>
    /\ ForPage(history.present, 2) = <<history.present[1]>>

(* ---- C14 ---- *)

\* C14: after every setCurrentPage, nextPage or previousPage step that
\* changes currentPage, selectedAnnotationId is null.
C14_NavigationClearsSelection ==
    [][currentPage' # currentPage => selectedAnnotationId' = NoId]_vars

(* ---- C15 ---- *)

\* C15: every setActiveTool step, for every tool value, and every step that
\* changes activeTool, leaves selectedAnnotationId, past, present and
\* future, the style defaults, isDrawing and the in-progress path as they
\* were.
C15_SetActiveToolFrame ==
    [][((\E t \in Tools : SetActiveTool(t)) \/ activeTool' # activeTool) =>
        UNCHANGED <<selectedAnnotationId, history, color, lineThickness,
                    fontFamily, isDrawing, currentPath>>]_vars

\* the store was switched to the image tool, which no button of the toolbar
\* selects, while an annotation was selected, the colour was not the initial
\* one, a path was accumulating and the history had a past and a future: all
\* of them are still there
C15_Witness ==
    /\ activeTool = "image"
    /\ selectedAnnotationId \in PresentIds(history.present)
    /\ history.past # <<>>
    /\ history.future # <<>>
    /\ color # "#000000"
    /\ isDrawing
    /\ currentPath # NoPath
    /\ currentPath.points # <<>>

(* ---- C16 ---- *)

\* C16: in every state, undo with an empty past and redo with an empty
\* future leave past, present and future as they are; and no undo or redo
\* step ever changes the selection, the tool, the style defaults or the
\* in-progress path.
C16_EmptyUndoRedoNoOp ==
    /\ [](history.past = <<>> => UndoHistory(history) = history)
    /\ [](history.future = <<>> => RedoHistory(history) = history)
    /\ [][(Undo \/ Redo) =>
            UNCHANGED <<selectedAnnotationId, activeTool, color, lineThickness,
                        fontFamily, isDrawing, currentPath>>]_vars

\* past is empty and undo does nothing, while redo would act; an
\* annotation is selected and a path is in progress
C16_Witness ==
    /\ history.past = <<>>
    /\ history.future # <<>>
    /\ UndoHistory(history) = history
    /\ RedoHistory(history) # history
    /\ selectedAnnotationId # NoId
    /\ isDrawing
    /\ currentPath # NoPath

(* ---- C17 ---- *)

\* C17: every createTextAnnotation step appends exactly one annotation, a
\* text annotation, at the end of present and leaves the annotations before
\* it as they were; content, fontSize, color and fontFamily are the
\* payload's when it carries them and otherwise the empty string, 11, and
\* the store's current color and fontFamily.
C17_CreateTextDefaults ==
    [][\A p \in TextPayloads :
        CreateTextAnnotation(p) =>
            LET n == Len(history.present)
                a == history'.present[n + 1]
            IN  /\ Len(history'.present) = n + 1
                /\ SubSeq(history'.present, 1, n) = history.present
                /\ a.type = "text"
                /\ a.position = p.position
                /\ a.pageNumber = p.pageNumber
                /\ a.content = IF "content" \in DOMAIN p THEN p.content ELSE ""
                /\ a.fontSize = IF "fontSize" \in DOMAIN p THEN p.fontSize ELSE 11
                /\ a.color = IF "color" \in DOMAIN p THEN p.color ELSE color
                /\ a.fontFamily =
                      IF "fontFamily" \in DOMAIN p THEN p.fontFamily ELSE fontFamily]_vars

\* a text annotation was created after another annotation, from a payload
\* without the optional fields, while the store's color and fontFamily were
\* not the initial ones
C17_Witness ==
    /\ Len(history.present) = 2
    /\ history.past # <<>>
    /\ history.past[Len(history.past)] = <<history.present[1]>>
    /\ history.present[2].type = "text"
    /\ history.present[2].content = ""
    /\ history.present[2].fontSize = 11
    /\ history.present[2].color = "#ff0000"
    /\ history.present[2].fontFamily = "serif"
    /\ history.present[2].position = [x |-> 10, y |-> 10]
    /\ color = "#ff0000"
    /\ fontFamily = "serif"

(* ---- C18 ---- *)

\* C18: in every state, every mutating command that takes effect (create
\* text, signature or image, finishDrawing with 2 points or more,
\* updateAnnotation on an id of present, deleteAnnotation,
\* clearAnnotations) leaves a past that is the old past with exactly one
\* entry more, the present held before the command, and an empty future.
C18_DispatcherProtocol ==
    \A r \in EffectiveResults :
        /\ Len(r.past) = Len(history.past) + 1
        /\ r.past[Len(r.past)] = history.present
        /\ SubSeq(r.past, 1, Len(history.past)) = history.past
        /\ r.future = <<>>

\* two commands took effect one after the other: past holds the two
\* presents before them, and further commands can take effect from a past
\* and a future that are not empty
C18_Witness ==
    /\ Len(history.past) = 1
    /\ Len(history.future) = 1
    /\ history.past[1] # history.present
    /\ history.present # <<>>
    /\ currentPath # NoPath
    /\ Len(currentPath.points) >= 2
    /\ Cardinality(EffectiveResults) >= 4

(* ---- C20 ---- *)

\* C20: in every state, whatever activeTool is, a pointer release on the
\* drawing canvas leaves isDrawing false and currentPath undefined: either
\* handleDrawEnd dispatches finishDrawing, which resets both, or no gesture
\* is in progress and no path is held.
C20_ReleaseEndsGesture ==
    DrawEndDispatches \/ (~isDrawing /\ currentPath = NoPath)

(* ---- C21 ---- *)

\* C21: a pointer-down on the canvas (setIsDrawing(true) followed by
\* addPointToPath) while a path is already being accumulated leaves
\* currentPath, its points, color and thickness, as it was.
C21_SecondPointerDownIgnored ==
    [][(isDrawing /\ currentPath # NoPath /\ HandleDrawStart) =>
        currentPath' = currentPath]_vars

(* ---- C22 ---- *)

\* the positions in present of the drawings
DrawingsIn(present) == {i \in 1..Len(present) : present[i].type = "drawing"}

\* C22: no setIsDrawing and no addPointToPath step changes past, present or
\* future; a step after which present holds a newly created drawing is a
\* finishDrawing taken with a current path of at least 2 points; and every
\* drawing of present holds a path of at least 2 points.
C22_PathNotInHistory ==
    /\ [][((\E b \in BOOLEAN : SetIsDrawing(b)) \/ (\E p \in Positions : AddPointToPath(p)))
            => history' = history]_vars
    /\ [][(\E i \in DrawingsIn(history'.present) : history'.present[i].id = nextId) =>
            /\ currentPath # NoPath
            /\ Len(currentPath.points) >= 2
            /\ \E n \in Pages : FinishDrawing(n)]_vars
    /\ [](\A i \in DrawingsIn(history.present) :
            Len(history.present[i].paths[1].points) >= 2)

\* a drawing was committed, and the next path is accumulating outside the
\* history
C22_Witness ==
    /\ isDrawing
    /\ currentPath # NoPath
    /\ Len(currentPath.points) = 1
    /\ DrawingsIn(history.present) # {}
    /\ Len(history.past) = 1
    /\ history.future = <<>>

(* ---- C23 ---- *)

IsPrefix(s, t) == Len(s) <= Len(t) /\ SubSeq(t, 1, Len(s)) = s

\* C23: while a path is held from one state to the next its points only grow
\* at the end (the old points are a prefix of the new ones); and a
\* finishDrawing that commits appends to present one drawing whose single
\* path is the accumulated path and whose pageNumber is the payload.
C23_PathAppendOnly ==
    [][/\ (currentPath # NoPath /\ currentPath' # NoPath) =>
            IsPrefix(currentPath.points, currentPath'.points)
       /\ \A n \in PageProps : (FinishDrawing(n) /\ history' # history) =>
            LET d == history'.present[Len(history'.present)]
            IN  /\ history'.present = Append(history.present, d)
                /\ d.type = "drawing"
                /\ Len(d.paths) = 1
                /\ d.paths[1] = currentPath
                /\ d.pageNumber = n]_vars

\* a two-point stroke was released over the canvas of the drawing that was
\* committed on page 2 before it: the second drawing has the points in the
\* order they were drawn and the page number of that canvas, which is none
C23_Witness ==
    /\ ~isDrawing
    /\ currentPath = NoPath
    /\ Len(history.present) = 2
    /\ history.present[1].type = "drawing"
    /\ history.present[1].pageNumber = 2
    /\ LET d == history.present[2]
       IN  /\ d.type = "drawing"
           /\ d.pageNumber = NoPage
           /\ d.paths[1].points = Stroke(2)

(* ---- C24 ---- *)

\* every snapshot of the history: those of past, present, those of future
Snapshots(h) ==
    {h.past[i] : i \in 1..Len(h.past)} \cup {h.present}
        \cup {h.future[i] : i \in 1..Len(h.future)}

DistinctIds(snapshot) ==
    \A i, j \in 1..Len(snapshot) : snapshot[i].id = snapshot[j].id => i = j

\* C24: with every create drawing a fresh id, the annotations of present have
\* pairwise distinct ids, and so have those of every snapshot of past and
\* future.
C24_IdsUnique == \A snapshot \in Snapshots(history) : DistinctIds(snapshot)

\* two annotations were created, one was updated in place of itself, and the
\* update was undone: snapshots with two annotations lie on both sides
C24_Witness ==
    /\ Len(history.present) = 2
    /\ history.future # <<>>
    /\ Len(history.future[1]) = 2
    /\ history.future[1] # history.present
    /\ history.past # <<>>

(* ---- C25 ---- *)

SameCreation(a, b) ==
    a.type = b.type /\ a.pageNumber = b.pageNumber /\ a.createdAt = b.createdAt

\* the annotations of one snapshot
Members(snapshot) == {snapshot[i] : i \in 1..Len(snapshot)}

\* what the components dispatch to updateAnnotation: the stored annotation
\* with its position replaced
SpreadPayloads ==
    {[a EXCEPT !.position = p] :
        a \in {b \in Members(history.present) : "position" \in DOMAIN b}, p \in Positions}

\* C25 as stated: the annotation of present with a given id has the type,
\* pageNumber and createdAt it was created with, that is, those it has in
\* every snapshot of the history that holds the id (createdAt is the id's
\* creation tick).
C25_CreationFieldsImmutable ==
    \A b \in Members(history.present) :
        /\ b.createdAt = b.id
        /\ \A snapshot \in Snapshots(history) : \A a \in Members(snapshot) :
                a.id = b.id => SameCreation(a, b)

\* C25 amended: an updateAnnotation whose payload is the stored annotation
\* with other fields replaced leaves the type, pageNumber and createdAt of
\* every id of present as they were, and an undo or a redo only moves
\* snapshots the history already holds.
C25_SpreadUpdateKeepsCreationFields ==
    [][/\ (\E u \in SpreadPayloads : UpdateAnnotation(u)) =>
            /\ Len(history'.present) = Len(history.present)
            /\ \A i \in 1..Len(history.present) :
                    /\ history'.present[i].id = history.present[i].id
                    /\ SameCreation(history'.present[i], history.present[i])
       /\ (Undo \/ Redo) => Snapshots(history') \subseteq Snapshots(history)]_vars

\* a text annotation created on page 2 was moved: the snapshot before the
\* move holds it at another position with the same creation fields
C25_Witness ==
    /\ history.past # <<>>
    /\ \E b \in Members(history.present) :
        \E a \in Members(history.past[Len(history.past)]) :
            /\ a.id = b.id
            /\ a.position # b.position
            /\ [a EXCEPT !.position = b.position] = b
            /\ b.type = "text"
            /\ b.pageNumber = 2
            /\ b.createdAt = b.id

(* ---- C26 ---- *)

\* an annotation of this type was created by the step: it carries the id
\* the step drew
Created(type) ==
    \E i \in 1..Len(history'.present) :
        history'.present[i].id = nextId /\ history'.present[i].type = type

\* C26: a pointer-down, move or release on the canvas while the tool is not
\* draw changes none of isDrawing, currentPath and history; no step changes
\* isDrawing or currentPath or creates a drawing unless the tool is draw; and
\* a text annotation is created only while the tool is text.
C26_ToolGatesPointerInput ==
    [][/\ (activeTool # "draw" /\ (HandleDrawStart \/ HandleDrawMove
                                      \/ \E n \in PageProps : HandleDrawEnd(n)))
            => UNCHANGED <<isDrawing, currentPath, history>>
       /\ (isDrawing' # isDrawing \/ currentPath' # currentPath \/ Created("drawing"))
            => activeTool = "draw"
       /\ Created("text") => activeTool = "text"]_vars

\* a stroke was started with the draw tool, the tool was switched to text and
\* a click put an empty text annotation on the page: the canvas holds a
\* gesture its handlers no longer answer to
C26_Witness ==
    /\ activeTool = "text"
    /\ isDrawing
    /\ currentPath # NoPath
    /\ Len(currentPath.points) = 1
    /\ \E b \in Members(history.present) :
            b.type = "text" /\ b.content = "" /\ b.fontSize = 11
    /\ DrawingsIn(history.present) = {}

(* ---- C27 ---- *)

\* the history read as one line of snapshots
Timeline(h) == h.past \o <<h.present>> \o h.future

\* C27: undo and redo keep the sequence past ++ [present] ++ future as it
\* is; an undo that acts moves the cursor one snapshot back and a redo that
\* acts one forward, so |past| + |future| stays the same.
C27_TimelineConserved ==
    [][(Undo \/ Redo) =>
        /\ Timeline(history') = Timeline(history)
        /\ Len(history'.past) + Len(history'.future)
              = Len(history.past) + Len(history.future)
        /\ (Undo /\ history.past # <<>>) => Len(history'.past) = Len(history.past) - 1
        /\ (Redo /\ history.future # <<>>) => Len(history'.past) = Len(history.past) + 1]_vars

\* the cursor stands inside a timeline of three different snapshots
C27_Witness ==
    /\ Len(history.past) = 1
    /\ Len(history.future) = 1
    /\ history.past[1] # history.present
    /\ history.present # history.future[1]
    /\ history.past[1] # history.future[1]
    /\ Len(history.future[1]) = 2

(* ---- C28 ---- *)

\* C28: an undo and a redo change nothing but history: the selection, the
\* tool, the colour, the line thickness, the font family, isDrawing and
\* currentPath are as before.
C28_UndoRedoFrame ==
    [][(Undo \/ Redo \/ HandleKeyDownUndo \/ HandleKeyDownRedo) =>
        UNCHANGED <<selectedAnnotationId, activeTool, color, lineThickness,
                    fontFamily, isDrawing, currentPath>>]_vars

\* an undo took the selected annotation out of present in the middle of a
\* stroke: the selection and the path stayed
C28_Witness ==
    /\ history.future # <<>>
    /\ selectedAnnotationId # NoId
    /\ ~Mounted(history.present, selectedAnnotationId)
    /\ Mounted(history.future[1], selectedAnnotationId)
    /\ isDrawing
    /\ currentPath # NoPath
    /\ activeTool = "draw"

(* ---- C29 ---- *)

\* C29: in every reachable state a current path is held only while isDrawing
\* is true: isDrawing = false implies that currentPath is undefined.
C29_NotDrawingNoPath == ~isDrawing => currentPath = NoPath

(* ---- C30 ---- *)

\* C30: currentPage is at least 1 and, whenever totalPages is at least 1, at
\* most totalPages; and a setCurrentPage with a value outside 1..totalPages
\* leaves currentPage as it is.
C30_PageCursorInBounds ==
    /\ [](currentPage >= 1 /\ (totalPages >= 1 => currentPage <= totalPages))
    /\ [][\A n \in 0..(MaxTotalPages + 1) :
            (SetCurrentPage(n) /\ ~(n >= 1 /\ n <= totalPages))
                => currentPage' = currentPage]_vars

====
